---- MODULE Spec2Model ----
(***************************************************************************)
(* Model of react-native-markdown-parser.                                  *)
(*                                                                         *)
(*   src/components/MarkdownParser.tsx   the component ("components")      *)
(*   src/unnamed/part_000                the older variant ("legacy")      *)
(*                                                                         *)
(* A JavaScript string is a sequence of one-character strings.  A token    *)
(* is a record; a field that is undefined (or null, where the code treats  *)
(* the two alike) is absent from the record.  Three specifications share   *)
(* the operators below:                                                    *)
(*   SpecLex    the inline scan with the four registered recognizers       *)
(*   SpecMemo   re-renders of one mounted component instance               *)
(*   Spec       one render pass over a token tree                          *)
(***************************************************************************)
EXTENDS Integers, Sequences, FiniteSets, TLC

VARIABLES
    \* --- the inline scan (SpecLex)
    input,              \* the inline source handed to the scan
    src,                \* the remaining source (marked cuts it as tokens are pushed)
    toks,               \* the tokens pushed so far
    ext,                \* the recognizer tried next (1..4), 5 = standard handling
    last,               \* what the last step did
    \* --- the props and the token tree (Spec, SpecMemo)
    customStyles,       \* the customStyles prop
    tokens,             \* the token tree the render uses
    output,             \* what ends up on screen
    \* --- one render pass (Spec)
    variant,            \* which of the two variants runs
    phase,              \* "props", "returned", "caught", "done"
    elements,           \* the element tree the component function returned
    hasError,           \* ErrorBoundary's state.hasError
    warnings,           \* the console.warn calls of the pass
    \* --- re-renders of one mounted instance (SpecMemo)
    renders,            \* the number of renders so far
    markdownText,       \* the markdownText prop of the latest render
    normalizedMarkdown, \* its normalized text
    prevText,           \* the markdownText prop of the render before
    prevNormalized,     \* the normalized text of the render before
    prevStyles,         \* the customStyles prop of the render before
    memo,               \* the useMemo cell: its dependency and its value
    lexerRan,           \* whether the latest render called marked.lexer
    lexerArg            \* the string the latest call of marked.lexer was given

lexVars == <<input, src, toks, ext, last>>

propVars == <<customStyles, tokens, output>>

passVars == <<variant, phase, elements, hasError, warnings>>

memoVars ==
    <<renders, markdownText, normalizedMarkdown, prevText, prevNormalized,
      prevStyles, memo, lexerRan, lexerArg>>

vars == <<lexVars, propVars, passVars, memoVars>>

(***************************************************************************)
(* Strings                                                                 *)
(***************************************************************************)

\* JavaScript's String.prototype.trim strips these (of the model's alphabet).
WhiteSpace == {" ", "\t", "\n", "\r"}

Drop(s, n) == SubSeq(s, n + 1, Len(s))

Take(s, n) == SubSeq(s, 1, n)

StartsWith(s, p) == Len(p) <= Len(s) /\ Take(s, Len(p)) = p

\* String.prototype.indexOf: the 0-based index of the first occurrence, or -1.
IndexOf(s, p) ==
    LET hits == {i \in 0..(Len(s) - Len(p)) : SubSeq(s, i + 1, i + Len(p)) = p}
    IN  IF hits = {} THEN -1 ELSE CHOOSE i \in hits : \A j \in hits : i <= j

\* A variant of Trim that strips the left end only.
TrimMutLeftOnly(s) ==
    LET keep == {i \in 1..Len(s) : s[i] \notin WhiteSpace}
    IN  IF keep = {} THEN <<>>
        ELSE SubSeq(s, CHOOSE i \in keep : \A j \in keep : i <= j, Len(s))

\* String.prototype.trim.
Trim(s) ==
    LET keep == {i \in 1..Len(s) : s[i] \notin WhiteSpace}
    IN  IF keep = {} THEN <<>>
        ELSE SubSeq(s, CHOOSE i \in keep : \A j \in keep : i <= j,
                       CHOOSE i \in keep : \A j \in keep : i >= j)

(***************************************************************************)
(* The four recognizers registered with marked.use                         *)
(***************************************************************************)

\* The value a tokenizer returns when it falls off its end (undefined).
NoToken == [type |-> "undefined"]

\* The value RegExp.prototype.exec returns when the rule does not match.
NoMatch == [matched |-> FALSE]

\* The number of leading characters of s that differ from c.
RECURSIVE RunLength(_, _)
RunLength(s, c) ==
    IF s = <<>> \/ Head(s) = c THEN 0 ELSE 1 + RunLength(Tail(s), c)

\* A variant of ExecRule whose run reaches to the last closing character.
ExecRuleMutLazyToLast(prefix, close, s) ==
    LET closes == {i \in (Len(prefix) + 2)..Len(s) : s[i] = close}
        j == CHOOSE i \in closes : \A k \in closes : i >= k
    IN  IF StartsWith(s, prefix) /\ closes # {}
        THEN [matched |-> TRUE, m0 |-> Take(s, j),
              m1 |-> SubSeq(s, Len(prefix) + 1, j - 1)]
        ELSE NoMatch

\* A variant of ExecRule whose run may be empty ([^c]* for [^c]+).
ExecRuleMutAllowEmpty(prefix, close, s) ==
    LET n == RunLength(Drop(s, Len(prefix)), close)
    IN  IF StartsWith(s, prefix) /\ Len(prefix) + n + 1 <= Len(s)
        THEN [matched |-> TRUE, m0 |-> Take(s, Len(prefix) + n + 1),
              m1 |-> SubSeq(s, Len(prefix) + 1, Len(prefix) + n)]
        ELSE NoMatch

\* rule.exec(src) for a rule of the shape /^<prefix>([^<close>]+)<close>/, which is
\* the shape of all four rules: the literal prefix at the start of s, then the
\* longest run (at least one character) free of the closing character, then the
\* closing character.  A shorter run cannot match, as the character after it is
\* not the closing character.  m0 is match[0], m1 is match[1].
ExecRule(prefix, close, s) ==
    LET n == RunLength(Drop(s, Len(prefix)), close)
    IN  IF /\ StartsWith(s, prefix)
           /\ n >= 1
           /\ Len(prefix) + n + 1 <= Len(s)
        THEN [matched |-> TRUE, m0 |-> Take(s, Len(prefix) + n + 1),
              m1 |-> SubSeq(s, Len(prefix) + 1, Len(prefix) + n)]
        ELSE NoMatch

Caret == <<"^">>

Tilde == <<"~">>

FootnoteOpen == <<"[", "^">>

VideoMarker == <<"!", "[", "[", "v", "i", "d", "e", "o", "]", "]">>

VideoOpen == VideoMarker \o <<"(">>

SuperscriptStart(s) == IndexOf(s, Caret)

SubscriptStart(s) == IndexOf(s, Tilde)

FootnoteStart(s) == IndexOf(s, FootnoteOpen)

VideoStart(s) == IndexOf(s, VideoMarker)

\* tokenizer(src) of the superscript extension.
SuperscriptTokenizer(s) ==
    LET match == ExecRule(Caret, "^", s)
    IN  IF match.matched
        THEN [type |-> "superscript", raw |-> match.m0, text |-> Trim(match.m1)]
        ELSE NoToken

SubscriptTokenizer(s) ==
    LET match == ExecRule(Tilde, "~", s)
    IN  IF match.matched
        THEN [type |-> "subscript", raw |-> match.m0, text |-> Trim(match.m1)]
        ELSE NoToken

FootnoteTokenizer(s) ==
    LET match == ExecRule(FootnoteOpen, "]", s)
    IN  IF match.matched
        THEN [type |-> "footnote", raw |-> match.m0, text |-> Trim(match.m1)]
        ELSE NoToken

VideoTokenizer(s) ==
    LET match == ExecRule(VideoOpen, ")", s)
    IN  IF match.matched
        THEN [type |-> "video", raw |-> match.m0, href |-> Trim(match.m1)]
        ELSE NoToken

\* The extensions in registration order.
ExtensionNames == <<"superscript", "subscript", "footnote", "video">>

Tokenizer(i, s) ==
    CASE i = 1 -> SuperscriptTokenizer(s)
      [] i = 2 -> SubscriptTokenizer(s)
      [] i = 3 -> FootnoteTokenizer(s)
      [] i = 4 -> VideoTokenizer(s)

Start(i, s) ==
    CASE i = 1 -> SuperscriptStart(s)
      [] i = 2 -> SubscriptStart(s)
      [] i = 3 -> FootnoteStart(s)
      [] i = 4 -> VideoStart(s)

\* The opening marker and the closing character of recognizer i.
OpenMarker(i) ==
    CASE i = 1 -> Caret
      [] i = 2 -> Tilde
      [] i = 3 -> FootnoteOpen
      [] i = 4 -> VideoOpen

CloseChar(i) ==
    CASE i = 1 -> "^"
      [] i = 2 -> "~"
      [] i = 3 -> "]"
      [] i = 4 -> ")"

\* The payload field of a token of recognizer i.
Payload(i, tok) == IF i = 4 THEN tok.href ELSE tok.text

(***************************************************************************)
(* The render-tree builder                                                 *)
(*                                                                         *)
(* A render node is an element [el, key, style, props, children], a        *)
(* literal string child [el |-> "#text", text], or a child that renders    *)
(* nothing (null, undefined).  Every builder returns a result              *)
(* [ok, val, log]: ok is FALSE when the evaluation threw, val is the       *)
(* sequence of nodes built, log the console.warn calls made, in order.     *)
(***************************************************************************)

Components == "components"

Legacy == "legacy"

Impls == {Components, Legacy}

Has(t, f) == f \in DOMAIN t

\* The JavaScript truthiness of a boolean field that may be missing.
Truthy(t, f) == Has(t, f) /\ t[f] = TRUE

\* A possibly undefined field, as an argument.
Field(t, f) == IF Has(t, f) THEN [def |-> TRUE, v |-> t[f]] ELSE [def |-> FALSE]

Undefined == [undef |-> TRUE]

\* The 28 slots of MarkdownStyles.
Slots ==
    { "container", "heading", "paragraph", "strong", "em", "del", "link", "image",
      "video", "code", "codeText", "codespan", "blockquote", "list", "listitem",
      "listitemContainer", "nestedList", "table", "tableRow", "tableCell",
      "tableHeader", "hr", "br", "space", "footnote", "superscript", "subscript",
      "taskCheckbox" }

\* customStyles = {}: every slot undefined.
NoCustomStyles == [s \in Slots |-> Undefined]

\* StyleSheet.create({...}): the built-in style of every slot.
styles ==
    [ container |-> [padding |-> 16],
      error |-> [color |-> "red", fontSize |-> 16, padding |-> 16],
      heading |-> [fontWeight |-> "700", marginVertical |-> 8, color |-> "black"],
      paragraph |-> [fontSize |-> 16, marginVertical |-> 4, color |-> "black"],
      strong |-> [fontWeight |-> "700", color |-> "black"],
      em |-> [fontStyle |-> "italic", color |-> "black"],
      del |-> [textDecorationLine |-> "line-through", color |-> "black"],
      link |-> [color |-> "#1a0dab", textDecorationLine |-> "underline"],
      image |-> [width |-> "100%", height |-> 200, resizeMode |-> "contain",
                 marginVertical |-> 8],
      video |-> [width |-> "100%", height |-> 200, marginVertical |-> 8],
      videoPlayer |-> [width |-> "100%", height |-> "100%"],
      code |-> [backgroundColor |-> "#f0f0f0", padding |-> 10, borderRadius |-> 4,
                marginVertical |-> 8],
      codeText |-> [fontSize |-> 14, color |-> "black"],
      codespan |-> [backgroundColor |-> "#f0f0f0", paddingHorizontal |-> 4,
                    borderRadius |-> 4, color |-> "black"],
      blockquote |-> [borderLeftWidth |-> 4, borderLeftColor |-> "#ccc",
                      paddingLeft |-> 12, marginVertical |-> 8,
                      backgroundColor |-> "#f9f9f9"],
      list |-> [marginVertical |-> 8],
      listitemContainer |-> [flexDirection |-> "column", alignItems |-> "flex-start"],
      listitem |-> [fontSize |-> 16, marginVertical |-> 2, color |-> "black"],
      nestedList |-> [marginVertical |-> 4],
      table |-> [borderWidth |-> 1, borderColor |-> "#ccc", marginVertical |-> 8],
      tableRow |-> [flexDirection |-> "row", borderBottomWidth |-> 1,
                    borderBottomColor |-> "#ccc"],
      tableCell |-> [flex |-> 1, padding |-> 8, fontSize |-> 14, color |-> "black"],
      tableHeader |-> [fontWeight |-> "700", backgroundColor |-> "#f0f0f0"],
      hr |-> [borderBottomWidth |-> 1, borderBottomColor |-> "#ccc",
              marginVertical |-> 8],
      br |-> [height |-> 8],
      space |-> [height |-> 8],
      footnote |-> [fontSize |-> 12, color |-> "#555"],
      superscript |-> [fontSize |-> 12, lineHeight |-> 16, position |-> "relative",
                       top |-> -5],
      subscript |-> [fontSize |-> 12, lineHeight |-> 16, position |-> "relative",
                     bottom |-> -5],
      taskCheckbox |-> [fontSize |-> 16] ]

\* The entries of a style array.
Sheet(slot) == [from |-> "styles", slot |-> slot]

Custom(cs, slot) == [from |-> "customStyles", slot |-> slot, value |-> cs[slot]]

InlineStyle(prop, value) == [from |-> "inline", prop |-> prop, value |-> value]

NoKey == <<"none">>

NoProps == [none |-> TRUE]

NullNode == [el |-> "#null"]

UndefinedNode == [el |-> "#undefined"]

Lit(text) == [el |-> "#text", text |-> text]

\* {token.text} as a child.
TextChild(t) == IF Has(t, "text") THEN Lit(t.text) ELSE UndefinedNode

El(el, key, style, props, children) ==
    [el |-> el, key |-> key, style |-> style, props |-> props, children |-> children]

Ok(nodes) == [ok |-> TRUE, val |-> nodes, log |-> <<>>]

\* A TypeError or ReferenceError thrown while evaluating.
Throw == [ok |-> FALSE, val |-> <<>>, log |-> <<>>]

\* r1 evaluated, then r2 (JavaScript evaluates left to right; a throw ends it).
Then(r1, r2) ==
    IF ~r1.ok THEN r1
    ELSE [ok |-> r2.ok,
          val |-> IF r2.ok THEN r1.val \o r2.val ELSE <<>>,
          log |-> r1.log \o r2.log]

\* An element around children that were evaluated to r.
Wrap(el, key, style, props, r) ==
    IF ~r.ok THEN r
    ELSE [ok |-> TRUE, val |-> <<El(el, key, style, props, r.val)>>, log |-> r.log]

Digit(d) == <<"0", "1", "2", "3", "4", "5", "6", "7", "8", "9">>[d + 1]

\* `${n}` for a natural number n.
RECURSIVE DecimalString(_)
DecimalString(n) ==
    IF n < 10 THEN <<Digit(n)>> ELSE Append(DecimalString(n \div 10), Digit(n % 10))

\* The glyphs, by code point: U+2611 is the checked box, U+2610 the empty box,
\* U+2022 the bullet.  A variant of Bullet that looks at item.task first.
BulletMutTaskFirst(ordered, item, index) ==
    IF Truthy(item, "task")
    THEN (IF Truthy(item, "checked") THEN <<"U+2611", " ">> ELSE <<"U+2610", " ">>)
    ELSE IF ordered THEN DecimalString(index + 1) \o <<".", " ">>
    ELSE <<"U+2022", " ">>

\* The bullet of the item at 0-based index in renderListItems: ordered is
\* tested first, then item.task and item.checked.
Bullet(ordered, item, index) ==
    IF ordered THEN DecimalString(index + 1) \o <<".", " ">>
    ELSE IF Truthy(item, "task")
         THEN (IF Truthy(item, "checked") THEN <<"U+2611", " ">> ELSE <<"U+2610", " ">>)
         ELSE <<"U+2022", " ">>

\* A variant of HeadingFontSize that computes the size from the depth.
HeadingFontSizeMutLinear(t) ==
    IF Has(t, "depth") /\ t.depth \in 1..6 THEN 36 - 4 * t.depth ELSE 14

\* The font size of a heading: the lookup by depth, 14 when it finds nothing
\* (`??` in the component, `||` in the older variant: no entry is 0 or null).
HeadingFontSize(t) ==
    IF ~Has(t, "depth") THEN 14
    ELSE CASE t.depth = 1 -> 32
           [] t.depth = 2 -> 28
           [] t.depth = 3 -> 24
           [] t.depth = 4 -> 20
           [] t.depth = 5 -> 16
           [] t.depth = 6 -> 14
           [] OTHER -> 14

\* marginLeft of an item container at a level.
ItemMargin(impl, level) == IF impl = Components THEN 10 * level ELSE 1 * level

\* marginLeft of a nested-list container.
NestedMargin == 20

\* A variant of NextLevel that passes the level on unchanged.
NextLevelMutSame(level) == level

\* The level renderListItems passes on for a nested list.
NextLevel(level) == level + 1

\* A variant of Filter that gives the kept tokens in reverse order.
RECURSIVE FilterMutReversed(_, _)
FilterMutReversed(ts, wantList) ==
    IF ts = <<>> THEN <<>>
    ELSE FilterMutReversed(Tail(ts), wantList)
         \o (IF (Head(ts).type = "list") = wantList THEN <<Head(ts)>> ELSE <<>>)

\* Array.prototype.filter on t.type === "list" (wantList) or t.type !== "list".
RECURSIVE Filter(_, _)
Filter(ts, wantList) ==
    IF ts = <<>> THEN <<>>
    ELSE IF (Head(ts).type = "list") = wantList
         THEN <<Head(ts)>> \o Filter(Tail(ts), wantList)
         ELSE Filter(Tail(ts), wantList)

\* token.tokens || [{ type: "text", text: token.text }]
TokensOrText(t) ==
    IF Has(t, "tokens") THEN [def |-> TRUE, v |-> t.tokens]
    ELSE [def |-> TRUE,
          v |-> <<IF Has(t, "text") THEN [type |-> "text", text |-> t.text]
                  ELSE [type |-> "text"]>>]

LinkProps(t) ==
    [onPress |-> Field(t, "href"), accessibilityRole |-> "link",
     accessibilityLabel |-> Field(t, "text")]

RECURSIVE RenderToken(_, _, _, _)
RECURSIVE RenderInlineFrom(_, _, _)
RECURSIVE RenderTokensFrom(_, _, _)
RECURSIVE RenderListItemsFrom(_, _, _, _, _, _)
RECURSIVE RenderNestedFrom(_, _, _, _, _, _)
RECURSIVE RenderCellsFrom(_, _, _, _, _)
RECURSIVE RenderRowsFrom(_, _, _, _)

\* renderInlineTokens of the component: a text token with tokens is expanded in
\* place, every other token is built with key `in-<i>`; the result is flat.
RenderInlineTokens(cs, opt) ==
    RenderInlineFrom(cs, IF opt.def THEN opt.v ELSE <<>>, 1)

RenderInlineFrom(cs, ts, i) ==
    IF i > Len(ts) THEN Ok(<<>>)
    ELSE LET t == ts[i]
             r == IF t.type = "text" /\ Has(t, "tokens")
                  THEN RenderInlineTokens(cs, Field(t, "tokens"))
                  ELSE RenderToken(Components, cs, t, <<"in", i - 1>>)
         IN  Then(r, RenderInlineFrom(cs, ts, i + 1))

\* renderTokens of the older variant: null without tokens, else one node per
\* token with key `<i>` (the array is shown flat, as React lays it out).
RenderTokens(cs, opt) ==
    IF ~opt.def THEN Ok(<<NullNode>>) ELSE RenderTokensFrom(cs, opt.v, 1)

RenderTokensFrom(cs, ts, i) ==
    IF i > Len(ts) THEN Ok(<<>>)
    ELSE Then(RenderToken(Legacy, cs, ts[i], <<"idx", i - 1>>),
              RenderTokensFrom(cs, ts, i + 1))

\* The inline children of a container, as each variant builds them.
Inline(impl, cs, opt) ==
    IF impl = Components THEN RenderInlineTokens(cs, opt) ELSE RenderTokens(cs, opt)

\* renderListItems(items, ordered, level): items.map over the items.
RenderListItems(impl, cs, items, ordered, level) ==
    IF ~items.def THEN Throw
    ELSE RenderListItemsFrom(impl, cs, items.v, ordered, level, 1)

RenderListItemsFrom(impl, cs, items, ordered, level, n) ==
    IF n > Len(items) THEN Ok(<<>>)
    ELSE LET item == items[n]
             index == n - 1
             bullet == Bullet(ordered, item, index)
             \* item.tokens?.filter(...) (|| [] in the component)
             nestedLists ==
                 IF Has(item, "tokens")
                 THEN [def |-> TRUE, v |-> Filter(item.tokens, TRUE)]
                 ELSE IF impl = Components THEN [def |-> TRUE, v |-> <<>>]
                 ELSE [def |-> FALSE]
             contentTokens ==
                 IF Has(item, "tokens")
                 THEN [def |-> TRUE, v |-> Filter(item.tokens, FALSE)]
                 ELSE IF impl = Components THEN [def |-> TRUE, v |-> <<>>]
                 ELSE [def |-> FALSE]
             text == Wrap("Text", NoKey,
                          <<Sheet("listitem"), Custom(cs, "listitem")>>, NoProps,
                          Then(Ok(<<Lit(bullet)>>), Inline(impl, cs, contentTokens)))
             \* `nestedLists && nestedLists.map(...)`: undefined renders nothing
             nested == IF nestedLists.def
                       THEN RenderNestedFrom(impl, cs, nestedLists.v, level, index, 1)
                       ELSE Ok(<<UndefinedNode>>)
             container ==
                 Wrap("View", <<"item", level, index>>,
                      <<Sheet("listitemContainer"), Custom(cs, "listitemContainer"),
                        InlineStyle("marginLeft", ItemMargin(impl, level))>>,
                      NoProps, Then(text, nested))
         IN  Then(container,
                  RenderListItemsFrom(impl, cs, items, ordered, level, n + 1))

\* nestedLists.map: each nested list in its own container, built at level + 1.
RenderNestedFrom(impl, cs, lists, level, index, n) ==
    IF n > Len(lists) THEN Ok(<<>>)
    ELSE LET listToken == lists[n]
             view == Wrap("View", <<"nested", level, index, n - 1>>,
                          <<Sheet("nestedList"), Custom(cs, "nestedList"),
                            InlineStyle("marginLeft", NestedMargin)>>,
                          NoProps,
                          RenderListItems(impl, cs, Field(listToken, "items"),
                                          Truthy(listToken, "ordered"),
                                          NextLevel(level)))
         IN  Then(view, RenderNestedFrom(impl, cs, lists, level, index, n + 1))

\* row.map / token.header.map: one Text per cell; row is "header" or a row index.
RenderCellsFrom(impl, cs, cells, row, n) ==
    IF n > Len(cells) THEN Ok(<<>>)
    ELSE LET cell == cells[n]
             node ==
                 IF row = <<"header">>
                 THEN Wrap("Text", <<"header", n - 1>>,
                           <<Sheet("tableCell"), Sheet("tableHeader"),
                             Custom(cs, "tableHeader")>>,
                           NoProps, Inline(impl, cs, Field(cell, "tokens")))
                 ELSE Wrap("Text", <<"cell", row[2], n - 1>>,
                           <<Sheet("tableCell"), Custom(cs, "tableCell")>>,
                           NoProps, Inline(impl, cs, Field(cell, "tokens")))
         IN  Then(node, RenderCellsFrom(impl, cs, cells, row, n + 1))

\* A variant of RenderRowsFrom that leaves out the last row.
RenderRowsMutDropLast(impl, cs, rows, n) ==
    IF n >= Len(rows) THEN Ok(<<>>)
    ELSE Then(Wrap("View", <<"row", n - 1>>,
                   <<Sheet("tableRow"), Custom(cs, "tableRow")>>, NoProps,
                   RenderCellsFrom(impl, cs, rows[n], <<"row", n - 1>>, 1)),
              RenderRowsFrom(impl, cs, rows, n + 1))

\* token.rows.map: one row container per source row.
RenderRowsFrom(impl, cs, rows, n) ==
    IF n > Len(rows) THEN Ok(<<>>)
    ELSE Then(Wrap("View", <<"row", n - 1>>,
                   <<Sheet("tableRow"), Custom(cs, "tableRow")>>, NoProps,
                   RenderCellsFrom(impl, cs, rows[n], <<"row", n - 1>>, 1)),
              RenderRowsFrom(impl, cs, rows, n + 1))

\* case "table"
RenderTable(impl, cs, t, key) ==
    LET header ==
            IF ~Has(t, "header") THEN Throw
            ELSE Wrap("View", NoKey, <<Sheet("tableRow"), Custom(cs, "tableRow")>>,
                      NoProps, RenderCellsFrom(impl, cs, t.header, <<"header">>, 1))
        rows == IF ~Has(t, "rows") THEN Throw
                ELSE RenderRowsFrom(impl, cs, t.rows, 1)
    IN  Wrap("View", key, <<Sheet("table"), Custom(cs, "table")>>, NoProps,
             Then(header, rows))

\* The inline wrappers strong, em, del and link.
RenderWrapper(impl, cs, t, key) ==
    LET props == IF t.type = "link" THEN LinkProps(t) ELSE NoProps
        children ==
            IF impl = Components THEN RenderInlineTokens(cs, TokensOrText(t))
            \* renderChildren is not defined anywhere in the older variant
            ELSE IF t.type = "strong" THEN Throw
            ELSE RenderTokens(cs, Field(t, "tokens"))
    IN  Wrap("Text", key, <<Sheet(t.type), Custom(cs, t.type)>>, props, children)

\* case "list_item" of the older variant
RenderListItemCase(cs, t, key) ==
    LET bullet ==
            IF Truthy(t, "ordered")
            THEN (IF Has(t, "index") THEN DecimalString(t.index + 1)
                  ELSE <<"N", "a", "N">>) \o <<".", " ">>
            ELSE IF Truthy(t, "task")
                 THEN (IF Truthy(t, "checked") THEN <<"U+2611", " ">>
                       ELSE <<"U+2610", " ">>)
                 ELSE <<"U+2022", " ">>
    IN  Wrap("Text", key, <<Sheet("listitem"), Custom(cs, "listitem")>>, NoProps,
             Then(Ok(<<Lit(bullet)>>), RenderTokens(cs, Field(t, "tokens"))))

Spacers == {"hr", "br", "space"}

Wrappers == {"strong", "em", "del", "link"}

TextLeaves == {"codespan", "superscript", "subscript"}

Warning(t) == [warn |-> "Unsupported token type", type |-> t.type]

\* A variant of the default case that throws.
RenderDefaultMutThrow(t) == Throw

\* default: console.warn("Unsupported token type", token.type); return null
RenderDefault(t) == [ok |-> TRUE, val |-> <<NullNode>>, log |-> <<Warning(t)>>]

\* renderToken(token, index): the switch on token.type.
RenderToken(impl, cs, t, key) ==
    CASE t.type = "heading" ->
            Wrap("Text", key,
                 <<Sheet("heading"), Custom(cs, "heading"),
                   InlineStyle("fontSize", HeadingFontSize(t))>>,
                 NoProps, Inline(impl, cs, Field(t, "tokens")))
      [] t.type = "paragraph" ->
            Wrap("Text", key, <<Sheet("paragraph"), Custom(cs, "paragraph")>>,
                 NoProps, Inline(impl, cs, Field(t, "tokens")))
      [] t.type = "text" ->
            IF impl = Components THEN Ok(<<TextChild(t)>>)
            ELSE Ok(<<El("Text", key, <<>>, NoProps, <<TextChild(t)>>)>>)
      [] t.type \in Wrappers -> RenderWrapper(impl, cs, t, key)
      [] t.type \in TextLeaves ->
            Ok(<<El("Text", key, <<Sheet(t.type), Custom(cs, t.type)>>, NoProps,
                    <<TextChild(t)>>)>>)
      [] t.type = "image" ->
            Ok(<<El("Image", key, <<Sheet("image"), Custom(cs, "image")>>,
                    [source |-> Field(t, "href"),
                     accessibilityLabel |-> Field(t, "text")], <<>>)>>)
      [] t.type = "video" ->
            Ok(<<El("View", key, <<Sheet("video"), Custom(cs, "video")>>, NoProps,
                    <<El("Video", NoKey, <<Sheet("videoPlayer")>>,
                         [source |-> Field(t, "href"), controls |-> TRUE,
                          paused |-> TRUE, resizeMode |-> "contain",
                          accessibilityLabel |-> "Video content"], <<>>)>>)>>)
      [] t.type = "blockquote" ->
            Wrap("View", key, <<Sheet("blockquote"), Custom(cs, "blockquote")>>,
                 NoProps, Inline(impl, cs, Field(t, "tokens")))
      [] t.type = "list" ->
            Wrap("View", key, <<Sheet("list"), Custom(cs, "list")>>, NoProps,
                 RenderListItems(impl, cs, Field(t, "items"), Truthy(t, "ordered"), 0))
      [] t.type = "list_item" /\ impl = Legacy -> RenderListItemCase(cs, t, key)
      [] t.type = "table" -> RenderTable(impl, cs, t, key)
      [] t.type = "code" ->
            Ok(<<El("View", key, <<Sheet("code"), Custom(cs, "code")>>, NoProps,
                    <<El("Text", NoKey, <<Sheet("codeText"), Custom(cs, "codeText")>>,
                         NoProps, <<TextChild(t)>>)>>)>>)
      [] t.type \in Spacers ->
            Ok(<<El("View", key, <<Sheet(t.type), Custom(cs, t.type)>>, NoProps, <<>>)>>)
      [] t.type = "footnote" ->
            Ok(<<El("Text", key, <<Sheet("footnote"), Custom(cs, "footnote")>>, NoProps,
                    <<Lit(<<"[">>), TextChild(t), Lit(<<"]">>)>>)>>)
      [] OTHER -> RenderDefault(t)

\* tokens.map((token, index) => renderToken(token, index))
RECURSIVE RenderTopFrom(_, _, _, _)
RenderTopFrom(impl, cs, ts, i) ==
    IF i > Len(ts) THEN Ok(<<>>)
    ELSE Then(RenderToken(impl, cs, ts[i], <<"idx", i - 1>>),
              RenderTopFrom(impl, cs, ts, i + 1))

\* The children of the ScrollView the component returns.
BuildChildren(impl, cs, ts) == RenderTopFrom(impl, cs, ts, 1)

\* The ScrollView around the built children.
ScrollViewOf(cs, children) ==
    El("ScrollView", NoKey, <<Sheet("container"), Custom(cs, "container")>>,
       NoProps, children)

\* ErrorBoundary.render()
FallbackNode ==
    El("Text", NoKey, <<Sheet("error")>>, NoProps,
       <<Lit(<<"E", "r", "r", "o", "r", " ", "r", "e", "n", "d", "e", "r", "i", "n",
               "g", " ", "M", "a", "r", "k", "d", "o", "w", "n">>)>>)

\* ErrorBoundary.render: the fallback when hasError is set, else the children.
BoundaryRender(hasErr, children) == IF hasErr THEN FallbackNode ELSE children

\* The host refuses a string child outside a Text element: displaying such a
\* tree throws inside the subtree the component returned.
RECURSIVE DisplayRaises(_)
DisplayRaises(node) ==
    /\ Has(node, "children")
    /\ \/ /\ node.el \in {"View", "ScrollView"}
          /\ \E k \in 1..Len(node.children) : node.children[k].el = "#text"
       \/ \E k \in 1..Len(node.children) : DisplayRaises(node.children[k])

\* The text a node shows: its literal strings, in order.
RECURSIVE DisplayedText(_)
RECURSIVE DisplayedTexts(_)
DisplayedText(n) ==
    IF n.el = "#text" THEN n.text
    ELSE IF Has(n, "children") THEN DisplayedTexts(n.children)
    ELSE <<>>

DisplayedTexts(ns) ==
    IF ns = <<>> THEN <<>> ELSE DisplayedText(Head(ns)) \o DisplayedTexts(Tail(ns))

(***************************************************************************)
(* The parts of the state a specification does not use stay at rest.       *)
(***************************************************************************)

LexIdle ==
    /\ input = <<>>
    /\ src = <<>>
    /\ toks = <<>>
    /\ ext = 0
    /\ last = [step |-> "none"]

PropsIdle ==
    /\ customStyles = NoCustomStyles
    /\ tokens = <<>>
    /\ output = [shown |-> "nothing"]

PassIdle ==
    /\ variant = Components
    /\ phase = "idle"
    /\ elements = Undefined
    /\ hasError = FALSE
    /\ warnings = <<>>

MemoIdle ==
    /\ renders = 0
    /\ markdownText = <<>>
    /\ normalizedMarkdown = <<>>
    /\ prevText = <<>>
    /\ prevNormalized = <<>>
    /\ prevStyles = NoCustomStyles
    /\ memo = [def |-> FALSE]
    /\ lexerRan = FALSE
    /\ lexerArg = <<>>

(***************************************************************************)
(* The inline scan of the host tokenizer.  marked tries the registered     *)
(* inline tokenizers in registration order on the remaining source; the    *)
(* first that returns a token wins, the token is pushed and its raw is cut *)
(* from the source.  When all decline, marked's own inline grammar takes   *)
(* over: it is outside this repository, so the model lets it consume any   *)
(* non-empty prefix as literal text (adjacent text tokens merge).          *)
(***************************************************************************)

\* Bounds of the scanned inputs.
MaxPieces == 3

Pieces ==
    { Caret, Tilde, FootnoteOpen, <<"]">>, VideoOpen, <<")">>,
      <<"a">>, <<" ">>, <<" ", "a", " ">> }

RECURSIVE Concat(_)
Concat(ss) == IF ss = <<>> THEN <<>> ELSE Head(ss) \o Concat(Tail(ss))

PieceSeqs == UNION {[1..n -> Pieces] : n \in 0..MaxPieces}

\* `^abc^`, `^abc^def^`, `[^note]`, `![[video]](x)`
ExampleInputs ==
    { <<"^", "a", "b", "c", "^">>,
      <<"^", "a", "b", "c", "^", "d", "e", "f", "^">>,
      <<"[", "^", "n", "o", "t", "e", "]">>,
      VideoOpen \o <<"x", ")">> }

Inputs == {Concat(ps) : ps \in PieceSeqs} \cup ExampleInputs

PushText(ts, s) ==
    IF ts # <<>> /\ ts[Len(ts)].type = "text"
    THEN [ts EXCEPT ![Len(ts)] =
            [type |-> "text", raw |-> @.raw \o s, text |-> @.text \o s]]
    ELSE Append(ts, [type |-> "text", raw |-> s, text |-> s])

InitLex ==
    /\ input \in Inputs
    /\ src = input
    /\ toks = <<>>
    /\ ext = 1
    /\ last = [step |-> "none"]
    /\ PropsIdle
    /\ PassIdle
    /\ MemoIdle

\* One registered tokenizer is called on the remaining source.
TryExtension(i) ==
    /\ ext = i
    /\ src # <<>>
    /\ LET tok == Tokenizer(i, src)
       IN  IF tok # NoToken
           THEN /\ toks' = Append(toks, tok)
                /\ src' = Drop(src, Len(tok.raw))
                /\ ext' = 1
                /\ last' = [step |-> "match", by |-> i, from |-> src, tok |-> tok]
           ELSE /\ UNCHANGED <<toks, src>>
                /\ ext' = i + 1
                /\ last' = [step |-> "decline", by |-> i, from |-> src, tok |-> tok]
    /\ UNCHANGED <<input, propVars, passVars, memoVars>>

TrySuperscript == TryExtension(1)

TrySubscript == TryExtension(2)

TryFootnote == TryExtension(3)

TryVideo == TryExtension(4)

\* All four declined: marked's standard inline handling consumes a prefix.
StandardInline ==
    /\ ext = 5
    /\ src # <<>>
    /\ \E n \in 1..Len(src) :
         /\ toks' = PushText(toks, Take(src, n))
         /\ src' = Drop(src, n)
         /\ last' = [step |-> "standard", by |-> 5, from |-> src,
                     tok |-> [type |-> "text", raw |-> Take(src, n)]]
    /\ ext' = 1
    /\ UNCHANGED <<input, propVars, passVars, memoVars>>

NextLex ==
    \/ TrySuperscript
    \/ TrySubscript
    \/ TryFootnote
    \/ TryVideo
    \/ StandardInline

SpecLex == InitLex /\ [][NextLex]_vars

(***************************************************************************)
(* Claims about the recognizers (checked under SpecLex)                    *)
(***************************************************************************)

\* The positions after the opening marker of recognizer i that hold its
\* closing character.
ClosersAfterOpen(i, s) ==
    {k \in (Len(OpenMarker(i)) + 1)..Len(s) : s[k] = CloseChar(i)}

MinOf(S) == CHOOSE i \in S : \A j \in S : i <= j

\* The pattern of recognizer i matches a prefix of s: s starts with the opening
\* marker and the first closing character after it leaves a non-empty run between.
PatternMatches(i, s) ==
    /\ StartsWith(s, OpenMarker(i))
    /\ ClosersAfterOpen(i, s) # {}
    /\ MinOf(ClosersAfterOpen(i, s)) >= Len(OpenMarker(i)) + 2

\* p is s without its leading and trailing whitespace.
IsTrimOf(p, s) ==
    /\ \E a \in 0..Len(s) : \E b \in a..Len(s) :
         /\ p = SubSeq(s, a + 1, b)
         /\ \A k \in (1..a) \cup ((b + 1)..Len(s)) : s[k] \in WhiteSpace
    /\ p # <<>> => (p[1] \notin WhiteSpace /\ p[Len(p)] \notin WhiteSpace)

Ex_abc == <<"^", "a", "b", "c", "^">>

Ex_abcdef == <<"^", "a", "b", "c", "^", "d", "e", "f", "^">>

Ex_note == <<"[", "^", "n", "o", "t", "e", "]">>

SupAbc == [type |-> "superscript", raw |-> Ex_abc, text |-> <<"a", "b", "c">>]

\* C8: the superscript recognizer, called on a source that starts with '^',
\* matches exactly when the first following '^' leaves a non-empty run between,
\* then takes that pair only (raw ends at that first '^', text is the trimmed
\* run, the scan resumes right after it); `^abc^` gives one superscript token
\* with text abc, and `^abc^def^` gives a superscript token with raw `^abc^`
\* followed by literal text `def^` only.
C8_SuperscriptLeftGreedy ==
    /\ (last.step \in {"match", "decline"} /\ last.by = 1
            /\ StartsWith(last.from, Caret)) =>
         LET s == last.from
             later == {k \in 2..Len(s) : s[k] = "^"}
         IN  IF later = {} \/ 2 \in later
             THEN last.step = "decline"
             ELSE /\ last.step = "match"
                  /\ last.tok.type = "superscript"
                  /\ last.tok.raw = Take(s, MinOf(later))
                  /\ IsTrimOf(last.tok.text, SubSeq(s, 2, MinOf(later) - 1))
                  /\ src = Drop(s, MinOf(later))
    /\ (input = Ex_abc /\ src = <<>>) => toks = <<SupAbc>>
    /\ input = Ex_abcdef =>
         /\ toks # <<>> => toks[1] = SupAbc
         /\ \A k \in 2..Len(toks) : toks[k].type = "text"
         /\ src = <<>> =>
              /\ Len(toks) = 2
              /\ toks[2].raw = <<"d", "e", "f", "^">>

C8_Witness ==
    /\ input = Ex_abcdef
    /\ src = <<>>
    /\ Len(toks) = 2
    /\ toks[1].type = "superscript"

\* C9: when the pattern of the recognizer being tried does not match a prefix of
\* the remaining source, the recognizer returns no token, the source and the
\* pushed tokens are left as they were, and the scan moves on to the next
\* recognizer (after the fourth, to the standard inline handling).
C9_DeclineConsumesNothing ==
    [][\A i \in 1..4 :
          (ext = i /\ src # <<>> /\ ~PatternMatches(i, src)) =>
              /\ Tokenizer(i, src) = NoToken
              /\ src' = src
              /\ toks' = toks
              /\ ext' = i + 1
              /\ last'.step = "decline"]_vars

\* A probe found its marker at the scan position and the match rule declined.
C9_Witness ==
    /\ last.step = "decline"
    /\ Start(last.by, last.from) = 0
    /\ src = last.from
    /\ \A i \in 1..4 : ~PatternMatches(i, src)
    /\ ext = 5

NoteToken ==
    [type |-> "footnote", raw |-> Ex_note, text |-> <<"n", "o", "t", "e">>]

\* C10: whenever the match rule of a recognizer succeeds, the token has the
\* recognizer's own type, its raw is a non-empty prefix of the source that runs
\* from the opening marker through the first closing character, and its payload
\* (text; href for video) is the run between the markers without its leading and
\* trailing whitespace; `[^note]` gives a footnote token with text note, which
\* the component renders as the text [note].
C10_TokenOfMatch ==
    /\ last.step = "match" =>
         LET i == last.by
             tok == last.tok
             open == OpenMarker(i)
             inner == SubSeq(tok.raw, Len(open) + 1, Len(tok.raw) - 1)
         IN  /\ tok.type = ExtensionNames[i]
             /\ DOMAIN tok = {"type", "raw", IF i = 4 THEN "href" ELSE "text"}
             /\ tok.raw # <<>>
             /\ StartsWith(last.from, tok.raw)
             /\ StartsWith(tok.raw, open)
             /\ Len(tok.raw) >= Len(open) + 2
             /\ tok.raw[Len(tok.raw)] = CloseChar(i)
             /\ \A k \in 1..Len(inner) : inner[k] # CloseChar(i)
             /\ IsTrimOf(Payload(i, tok), inner)
    /\ (input = Ex_note /\ src = <<>>) =>
         /\ toks = <<NoteToken>>
         /\ LET r == RenderToken(Components, NoCustomStyles, toks[1], <<"in", 0>>)
            IN  /\ r.ok
                /\ Len(r.val) = 1
                /\ r.val[1].el = "Text"
                /\ DisplayedText(r.val[1]) = <<"[", "n", "o", "t", "e", "]">>

\* `[^note]` was scanned: the footnote recognizer matched the whole of it.
C10_Witness ==
    /\ input = Ex_note
    /\ src = <<>>
    /\ last.step = "match"
    /\ last.by = 3
    /\ toks = <<NoteToken>>

(***************************************************************************)
(* Token trees handed to the builder                                       *)
(***************************************************************************)

\* Bounds of the token trees.
MaxInline == 3

MaxTop == 3

MaxItems == 2

MaxNest == 1

MaxCols == 2

MaxRows == 2

A == <<"a">>

B == <<"b">>

Txt(text) == [type |-> "text", text |-> text]

\* marked emits html tokens; renderToken has no case for them.
UnknownToken == [type |-> "html", text |-> <<"<", "i", ">">>]

HandledTypes ==
    { "heading", "paragraph", "text", "strong", "em", "del", "codespan", "link",
      "image", "video", "blockquote", "list", "table", "code", "hr", "br", "space",
      "footnote", "superscript", "subscript" }

IsUnknown(variant_, t) ==
    t.type \notin HandledTypes \cup (IF variant_ = Legacy THEN {"list_item"} ELSE {})

InlinePool ==
    { Txt(A),
      UnknownToken,
      [type |-> "strong", text |-> B],
      [type |-> "em", text |-> A, tokens |-> <<Txt(A)>>],
      [type |-> "text", text |-> B, tokens |-> <<Txt(B), UnknownToken>>],
      [type |-> "codespan", text |-> A] }

InlineSeqs == UNION {[1..n -> InlinePool] : n \in 0..MaxInline}

Para(ts) == [type |-> "paragraph", tokens |-> ts]

\* One inline container around every inline sequence.
ContainerDocs ==
    {<<Para(ts)>> : ts \in InlineSeqs}
    \cup {<<[type |-> "heading", depth |-> 2, tokens |-> ts]>> : ts \in InlineSeqs}
    \cup {<<Para(<<[type |-> "link", href |-> A, text |-> A, tokens |-> ts]>>)>> :
            ts \in InlineSeqs}

TableNoHeader == [type |-> "table", rows |-> <<>>]

TopPool ==
    { Para(<<Txt(A)>>),
      UnknownToken,
      [type |-> "hr"],
      [type |-> "code", text |-> A],
      Txt(A),
      TableNoHeader }

TopDocs == UNION {[1..n -> TopPool] : n \in 0..MaxTop}

\* The tokens marked gives a tight list item: one text token with its inline tokens.
ItemContent == <<[type |-> "text", text |-> A, tokens |-> <<Txt(A)>>]>>

\* Item k of a plain list, or of a task list whose odd items are checked.
MkItem(tasks, k, nested) ==
    [type |-> "list_item", task |-> tasks, checked |-> tasks /\ k % 2 = 1,
     tokens |-> ItemContent \o nested]

MkList(ordered, tasks, n, nested) ==
    [type |-> "list", ordered |-> ordered,
     items |-> [k \in 1..n |-> MkItem(tasks, k, IF k = n THEN nested ELSE <<>>)]]

\* The lists nested at most d lists deep below themselves (the nested list hangs
\* from the last item).
RECURSIVE ListsOf(_)
ListsOf(d) ==
    { MkList(o, t, n, nested) :
        o \in BOOLEAN, t \in BOOLEAN, n \in 1..MaxItems,
        nested \in {<<>>} \cup (IF d = 0 THEN {} ELSE {<<L>> : L \in ListsOf(d - 1)}) }

\* `- a / - b / - c`, nested three deep.
ListABC ==
    MkList(FALSE, FALSE, 1, <<MkList(FALSE, FALSE, 1, <<MkList(FALSE, FALSE, 1, <<>>)>>)>>)

\* A list inside a blockquote inside a list item (`- > - a`).
ListViaBlockquote ==
    [type |-> "list", ordered |-> FALSE,
     items |-> <<[type |-> "list_item", task |-> FALSE,
                  tokens |-> <<[type |-> "blockquote",
                                tokens |-> <<MkList(FALSE, FALSE, 1, <<>>)>>]>>]>>]

\* An ordered list whose source numbering starts at 5, with two nested lists
\* under its last item.
ListTwoNested ==
    [MkList(TRUE, TRUE, 2, <<MkList(TRUE, FALSE, 1, <<>>), MkList(FALSE, TRUE, 2, <<>>)>>)
        EXCEPT !.items[1].tokens = <<Txt(<<"5", ".", " ">>)>>] @@ [start |-> 5]

ListItemNoTokens ==
    [type |-> "list", ordered |-> FALSE, items |-> <<[type |-> "list_item"]>>]

ListNoItems == [type |-> "list", ordered |-> FALSE]

ListOfEleven == MkList(TRUE, TRUE, 11, <<>>)

ListDocs ==
    {<<L>> : L \in ListsOf(MaxNest)}
    \cup { <<ListABC>>, <<ListViaBlockquote>>, <<ListTwoNested>>, <<ListItemNoTokens>>,
           <<ListNoItems>>, <<ListOfEleven>>,
           <<[type |-> "blockquote", tokens |-> <<ListABC>>]>> }

Cell(name) == [text |-> name, tokens |-> <<Txt(name)>>]

HeaderCell(c) == Cell(<<"h", Digit(c)>>)

BodyCell(r, c) == Cell(<<"r", Digit(r), "c", Digit(c)>>)

\* Every table with up to MaxCols header cells and up to MaxRows rows of up to
\* MaxCols cells each (rows need not be as long as the header).
Tables ==
    { [type |-> "table",
       header |-> [c \in 1..h |-> HeaderCell(c)],
       rows |-> [r \in 1..nr |-> [c \in 1..lens[r] |-> BodyCell(r, c)]]] :
        h \in 0..MaxCols, nr \in 0..MaxRows, lens \in [1..MaxRows -> 0..MaxCols] }

TableDocs ==
    {<<T>> : T \in Tables}
    \cup { <<TableNoHeader>>,
           <<[type |-> "table", header |-> <<HeaderCell(1)>>]>>,
           <<Para(<<Txt(A)>>), [type |-> "blockquote", tokens |-> <<TableNoHeader>>]>> }

\* A strong, em, del or link token without a tokens field, with an empty one and
\* with child tokens.
WrapperTokens ==
    UNION { { [type |-> w, text |-> B],
              [type |-> w, text |-> B, tokens |-> <<>>],
              [type |-> w, text |-> A,
               tokens |-> <<Txt(A), [type |-> "codespan", text |-> B]>>] } :
            w \in {"strong", "em", "del"} }
    \cup { [type |-> "link", href |-> A, text |-> B],
           [type |-> "link", href |-> A, text |-> A,
            tokens |-> <<[type |-> "strong", text |-> B, tokens |-> <<Txt(B)>>]>>] }

WrapperDocs == {<<Para(<<Txt(A), w>>)>> : w \in WrapperTokens}

\* A text token that carries its own child tokens (`b` around an em), and one
\* that carries another such token.
TextWithTokens ==
    [type |-> "text", text |-> B,
     tokens |-> <<Txt(A), [type |-> "em", text |-> B, tokens |-> <<Txt(B)>>]>>]

TextWithTextWithTokens ==
    [type |-> "text", text |-> A,
     tokens |-> <<[type |-> "codespan", text |-> A], TextWithTokens, Txt(B)>>]

\* Such tokens as top-level tokens of the document and inside containers.
TextDocs ==
    { <<TextWithTokens>>,
      <<Para(<<Txt(A)>>), TextWithTextWithTokens>>,
      <<Para(<<TextWithTokens>>)>>,
      <<Para(<<[type |-> "strong", text |-> A, tokens |-> <<Txt(A)>>],
               TextWithTextWithTokens, [type |-> "codespan", text |-> B]>>)>>,
      <<[type |-> "blockquote", tokens |-> <<Para(<<TextWithTextWithTokens>>)>>]>> }

\* A list whose one item has content tokens and nested lists in turn.
ListMixedItem ==
    [type |-> "list", ordered |-> FALSE,
     items |-> <<[type |-> "list_item", task |-> FALSE,
                  tokens |-> <<TextWithTokens,
                               MkList(TRUE, FALSE, 2, <<>>),
                               [type |-> "codespan", text |-> B],
                               MkList(FALSE, TRUE, 1, <<>>),
                               UnknownToken,
                               Txt(A)>>],
                 [type |-> "list_item", task |-> TRUE, checked |-> TRUE]>>]

PartitionDocs ==
    { <<ListMixedItem>>,
      <<Para(<<Txt(A)>>), MkList(TRUE, FALSE, 1, <<ListMixedItem>>)>> }

Docs ==
    ContainerDocs \cup TopDocs \cup ListDocs \cup TableDocs \cup WrapperDocs
    \cup TextDocs \cup PartitionDocs

\* A document with a token of every kind renderToken handles (the strong token is
\* left out of the second one, which the older variant can build).
AllKindsInline(withStrong) ==
    (IF withStrong THEN <<[type |-> "strong", text |-> B]>> ELSE <<>>)
    \o << [type |-> "em", text |-> A, tokens |-> <<Txt(A)>>],
          [type |-> "del", text |-> A, tokens |-> <<Txt(A)>>],
          [type |-> "link", href |-> A, text |-> A, tokens |-> <<Txt(A)>>],
          [type |-> "codespan", text |-> A],
          [type |-> "image", href |-> A, text |-> B],
          [type |-> "footnote", text |-> A],
          [type |-> "superscript", text |-> A],
          [type |-> "subscript", text |-> B],
          [type |-> "br"] >>

AllKindsDoc(withStrong) ==
    << [type |-> "heading", depth |-> 1, tokens |-> <<Txt(A)>>],
       Para(AllKindsInline(withStrong)),
       [type |-> "video", href |-> A],
       [type |-> "blockquote", tokens |-> <<Para(<<Txt(B)>>)>>],
       MkList(FALSE, TRUE, 2, <<MkList(TRUE, FALSE, 1, <<>>)>>),
       [type |-> "table", header |-> <<HeaderCell(1)>>, rows |-> <<<<BodyCell(1, 1)>>>>],
       [type |-> "code", text |-> A],
       [type |-> "hr"],
       [type |-> "space"] >>

\* The largest heading depth of the documents (marked gives 1 to 6).
MaxDepth == 7

\* A heading of every depth from -1 to MaxDepth, and one without a depth.
HeadingDocs ==
    { <<[type |-> "heading", depth |-> d, tokens |-> <<Txt(A)>>]>> : d \in -1..MaxDepth }
    \cup { <<[type |-> "heading", tokens |-> <<Txt(A)>>]>>,
           <<[type |-> "heading", depth |-> 6]>> }

StyleDocs ==
    { AllKindsDoc(TRUE), AllKindsDoc(FALSE), <<MkList(FALSE, TRUE, 1, <<>>)>> }
    \cup HeadingDocs

SomeCustomStyles ==
    [NoCustomStyles EXCEPT !["heading"] = [color |-> "tomato"],
                           !["listitemContainer"] = [marginLeft |-> 4]]

\* customStyles with every slot given: a property the built-in style of the
\* slot has too (color, fontSize) and one it has not (marginLeft).
EveryCustomStyle ==
    [s \in Slots |-> [color |-> "tomato", fontSize |-> 40, marginLeft |-> 4]]

(***************************************************************************)
(* One render pass of the component over a token tree (Spec)               *)
(***************************************************************************)

Uncaught == [shown |-> "uncaught"]

Init ==
    /\ variant \in Impls
    /\ \/ customStyles \in {NoCustomStyles, SomeCustomStyles} /\ tokens \in Docs
       \/ customStyles \in {NoCustomStyles, EveryCustomStyle} /\ tokens \in StyleDocs
    /\ phase = "props"
    /\ elements = Undefined
    /\ output = [shown |-> "nothing"]
    /\ hasError = FALSE
    /\ warnings = <<>>
    /\ LexIdle
    /\ MemoIdle

\* The component function runs to its return statement: the children are built
\* while the JSX of the return statement is evaluated, and the element tree
\* (the component wraps it in <ErrorBoundary>) is handed to React.
ComponentReturns ==
    /\ phase = "props"
    /\ LET r == BuildChildren(variant, customStyles, tokens)
       IN  /\ r.ok
           /\ elements' = ScrollViewOf(customStyles, r.val)
           /\ warnings' = r.log
    /\ phase' = "returned"
    /\ UNCHANGED <<variant, hasError, propVars, lexVars, memoVars>>

\* The component function throws while it builds the children: no element is
\* returned, so no ErrorBoundary is mounted for this pass, and the exception
\* leaves the component for whatever surrounds it in the host application.
ComponentThrows ==
    /\ phase = "props"
    /\ LET r == BuildChildren(variant, customStyles, tokens)
       IN  /\ ~r.ok
           /\ warnings' = r.log
    /\ output' = Uncaught
    /\ phase' = "done"
    /\ UNCHANGED <<variant, elements, hasError, customStyles, tokens, lexVars, memoVars>>

\* React displays the returned tree; with the boundary's hasError false its
\* render() returns the children.  (The older variant puts every string in a
\* Text element of its own, so displaying its trees does not throw.)
DisplayTree ==
    /\ phase = "returned"
    /\ ~DisplayRaises(elements)
    /\ output' = [shown |-> "tree",
                  tree |-> IF variant = Components
                           THEN BoundaryRender(hasError, elements) ELSE elements]
    /\ phase' = "done"
    /\ UNCHANGED <<variant, elements, hasError, warnings, customStyles, tokens,
                   lexVars, memoVars>>

\* Displaying the returned tree throws below the boundary:
\* getDerivedStateFromError sets hasError.
GetDerivedStateFromError ==
    /\ phase = "returned"
    /\ variant = Components
    /\ DisplayRaises(elements)
    /\ hasError' = TRUE
    /\ phase' = "caught"
    /\ UNCHANGED <<variant, elements, warnings, propVars, lexVars, memoVars>>

\* The boundary renders again, now with hasError set.
BoundaryFallback ==
    /\ phase = "caught"
    /\ output' = [shown |-> "tree", tree |-> BoundaryRender(hasError, elements)]
    /\ phase' = "done"
    /\ UNCHANGED <<variant, elements, hasError, warnings, customStyles, tokens,
                   lexVars, memoVars>>

Next ==
    \/ ComponentReturns
    \/ ComponentThrows
    \/ DisplayTree
    \/ GetDerivedStateFromError
    \/ BoundaryFallback

Spec == Init /\ [][Next]_vars

(***************************************************************************)
(* Claims about one render pass (checked under Spec)                       *)
(***************************************************************************)

Built == BuildChildren(variant, customStyles, tokens)

Shown == phase = "done" /\ output.shown = "tree"

\* C1: when building the render tree throws, the component shows exactly the
\* fallback node 'Error rendering Markdown' in place of the document, the
\* exception having been caught by its ErrorBoundary.
C1_BuildExceptionShowsFallback ==
    (phase = "done" /\ variant = Components /\ ~Built.ok) =>
        /\ hasError
        /\ output = [shown |-> "tree", tree |-> FallbackNode]

\* s without its p-th element.
RemoveAt(s, p) == SubSeq(s, 1, p - 1) \o SubSeq(s, p + 1, Len(s))

\* Every token sequence of the tree that carries inline tokens of a container.
RECURSIVE InlineLists(_)
InlineLists(ts) ==
    UNION { IF Has(ts[k], "tokens")
            THEN {ts[k].tokens} \cup InlineLists(ts[k].tokens)
            ELSE {} : k \in 1..Len(ts) }

\* A node without its key.
StripKey(n) == IF Has(n, "key") THEN [n EXCEPT !.key = NoKey] ELSE n

StripKeys(ns) == [k \in 1..Len(ns) |-> StripKey(ns[k])]

\* The results of building ts with, and without, its p-th token, and of building
\* the tokens before it; top says whether ts is the top-level sequence.
BuildSeq(top, ts) ==
    IF top THEN BuildChildren(variant, customStyles, ts)
    ELSE Inline(variant, customStyles, [def |-> TRUE, v |-> ts])

\* Skipping the unknown token at p leaves the build of ts what the build without
\* it is, but for a null at its place and one warning; same(a, b) compares the
\* nodes of the siblings.
SkippedAt(top, ts, p, strip) ==
    LET with == BuildSeq(top, ts)
        without == BuildSeq(top, RemoveAt(ts, p))
        before == BuildSeq(top, Take(ts, p - 1))
        view(ns) == IF strip THEN StripKeys(ns) ELSE ns
    IN  /\ with.ok = without.ok
        /\ with.ok =>
             /\ Len(with.val) = Len(without.val) + 1
             /\ with.val[Len(before.val) + 1] = NullNode
             /\ view(RemoveAt(with.val, Len(before.val) + 1)) = view(without.val)
             /\ Take(with.val, Len(before.val)) = before.val
             /\ Len(with.log) = Len(without.log) + 1
             /\ with.log[Len(before.log) + 1] = Warning(ts[p])
             /\ RemoveAt(with.log, Len(before.log) + 1) = without.log

UnknownSites(ts) == {p \in 1..Len(ts) : IsUnknown(variant, ts[p])}

RECURSIVE AllLists(_)
AllLists(ts) ==
    UNION { (IF ts[k].type = "list" THEN {ts[k]} ELSE {})
            \cup (IF Has(ts[k], "tokens") THEN AllLists(ts[k].tokens) ELSE {})
            \cup (IF Has(ts[k], "items") THEN AllLists(ts[k].items) ELSE {}) :
            k \in 1..Len(ts) }

\* Every node of a tree.
RECURSIVE Subnodes(_)
Subnodes(n) ==
    {n} \cup (IF Has(n, "children")
              THEN UNION {Subnodes(n.children[k]) : k \in 1..Len(n.children)}
              ELSE {})

DigitValue(c) == CHOOSE d \in 0..9 : Digit(d) = c

IsDigit(c) == \E d \in 0..9 : Digit(d) = c

\* The number a string of digits writes.
RECURSIVE DecimalValue(_)
DecimalValue(ds) ==
    IF ds = <<>> THEN 0
    ELSE 10 * DecimalValue(Take(ds, Len(ds) - 1)) + DigitValue(ds[Len(ds)])

\* b is "N. " with N the decimal numeral of n.
IsNumberBullet(b, n) ==
    /\ Len(b) >= 3
    /\ SubSeq(b, Len(b) - 1, Len(b)) = <<".", " ">>
    /\ \A k \in 1..(Len(b) - 2) : IsDigit(b[k])
    /\ b[1] # "0"
    /\ DecimalValue(Take(b, Len(b) - 2)) = n

\* The bullet the claim gives item i (0-based) of list L.
IsClaimedBullet(b, L, i) ==
    LET item == L.items[i + 1]
    IN  IF Truthy(L, "ordered") THEN IsNumberBullet(b, i + 1)
        ELSE IF Truthy(item, "task") /\ Truthy(item, "checked") THEN b = <<"U+2611", " ">>
        ELSE IF Truthy(item, "task") THEN b = <<"U+2610", " ">>
        ELSE b = <<"U+2022", " ">>

\* The bullet of an item container: the first child of its Text.
BulletOf(itemNode) == itemNode.children[1].children[1].text

Levels == 0..(MaxNest + 1)

\* C5: for every list token at every nesting level, the item at 0-based index i
\* gets the bullet "(i+1). " when the list is ordered, whatever its task and
\* checked flags and the numbering of the source; else the checked box when it
\* is a checked task, the empty box when it is an unchecked task, and the bullet
\* otherwise.  The item containers so built are the ones shown.
C5_BulletPrefix ==
    Shown =>
        \A L \in AllLists(tokens) :
            Has(L, "items") =>
                \E level \in Levels :
                    LET r == RenderListItems(variant, customStyles, Field(L, "items"),
                                             Truthy(L, "ordered"), level)
                    IN  /\ r.ok
                        /\ Len(r.val) = Len(L.items)
                        /\ \A i \in 0..(Len(L.items) - 1) :
                             /\ r.val[i + 1] \in Subnodes(output.tree)
                             /\ IsClaimedBullet(BulletOf(r.val[i + 1]), L, i)

\* An ordered list of task items, numbered from 5 in its source, with nested
\* lists below, is shown.
C5_Witness ==
    /\ Shown
    /\ tokens = <<ListTwoNested>>
    /\ BulletOf(output.tree.children[1].children[2]) = <<"2", ".", " ">>

IsItemContainer(n) == Has(n, "key") /\ n.key[1] = "item"

IsNestedContainer(n) == Has(n, "key") /\ n.key[1] = "nested"

IsListView(n) == Has(n, "style") /\ n.style # <<>> /\ n.style[1] = Sheet("list")

\* Whether an entry of a style array sets marginLeft (the defaults of
\* styles.listitemContainer and styles.nestedList do not).
SetsMarginLeft(e) ==
    \/ e.from = "inline" /\ e.prop = "marginLeft"
    \/ e.from = "customStyles" /\ Has(e.value, "marginLeft")

\* The marginLeft a style array ends up with: its last entry that sets it wins.
MarginLeftOf(style) ==
    LET setters == {k \in 1..Len(style) : SetsMarginLeft(style[k])}
        e == style[CHOOSE k \in setters : \A j \in setters : k >= j]
    IN  IF setters = {} THEN 0
        ELSE IF e.from = "inline" THEN e.value ELSE e.value.marginLeft

\* The item containers below node n, each with: depth, the number of item
\* containers around it; direct, the number of nested-list containers around it
\* up to the nearest list element; level, the level in its key; total, the sum
\* of the marginLeft of its own container and of the item and nested-list
\* containers around it; parent, the total of the item container around it
\* (-1 when there is none); bullet, its bullet.
RECURSIVE ItemInfos(_, _, _, _, _)
ItemInfos(n, depth, direct, margin, parent) ==
    IF ~Has(n, "children") THEN {}
    ELSE LET own == IF IsItemContainer(n) \/ IsNestedContainer(n)
                    THEN MarginLeftOf(n.style) ELSE 0
             below(d, dr, m, p) ==
                 UNION {ItemInfos(n.children[k], d, dr, m, p) :
                          k \in 1..Len(n.children)}
         IN  IF IsItemContainer(n)
             THEN {[depth |-> depth, direct |-> direct, level |-> n.key[2],
                    total |-> margin + own, parent |-> parent,
                    bullet |-> BulletOf(n)]}
                  \cup below(depth + 1, direct, margin + own, margin + own)
             ELSE IF IsNestedContainer(n)
             THEN below(depth, direct + 1, margin + own, parent)
             ELSE IF IsListView(n) THEN below(depth, 0, margin, parent)
             ELSE below(depth, direct, margin, parent)

ShownItems == ItemInfos(output.tree, 0, 0, 0, -1)

ABCLevels(I) ==
    tokens = <<ListABC>> =>
        /\ {x.depth : x \in I} = {0, 1, 2}
        /\ {x.level : x \in I} = {0, 1, 2}
        /\ \A x \in I : x.bullet = <<"U+2022", " ">>

\* C6 as stated: a list nested k lists deep is built at level k (0 for the
\* outermost), and the total left indentation of an item is strictly greater at
\* nesting depth k+1 than at depth k; `- a / - b / - c` nested three deep gives
\* three levels, each with the bullet.
C6_LevelIsNestingDepth ==
    Shown =>
        /\ \A x \in ShownItems : x.level = x.depth
        /\ \A x, y \in ShownItems : y.depth = x.depth + 1 => y.total > x.total
        /\ ABCLevels(ShownItems)

\* C6 as amended: a list is built at level 0 when renderToken builds it (the
\* outermost list, and also a list that sits in another container, such as a
\* blockquote, inside a list item), and at level k when it is a direct member
\* of the tokens of an item of a list built at level k-1; an item of such a
\* directly nested list is indented strictly more than the item it hangs from,
\* and where every nested list is a direct member of its item's tokens the total
\* left indentation is strictly greater at depth k+1 than at depth k;
\* `- a / - b / - c` nested three deep gives three levels, each with the bullet.
C6_LevelIsDirectNestingDepth ==
    Shown =>
        /\ \A x \in ShownItems : x.level = x.direct
        /\ \A x \in ShownItems : x.direct > 0 => x.total > x.parent /\ x.parent >= 0
        /\ (\A x \in ShownItems : x.depth = x.direct) =>
              \A x, y \in ShownItems : y.depth = x.depth + 1 => y.total > x.total
        /\ ABCLevels(ShownItems)

\* The list nested three deep is shown, with an item at each of three levels.
C6_Witness ==
    /\ Shown
    /\ tokens = <<ListABC>>
    /\ Cardinality(ShownItems) = 3

\* C7: the node of a table token with header h and rows r has exactly 1 + |r|
\* row containers; the first holds exactly |h| cells, in header order, and the
\* j-th after it holds exactly the cells of r[j], in their order; a row shorter
\* or longer than the header is neither padded nor truncated.
C7_TableGrid ==
    Shown =>
        \A k \in 1..Len(tokens) :
            tokens[k].type = "table" =>
                LET t == tokens[k]
                    n == output.tree.children[k]
                IN  /\ Len(n.children) = 1 + Len(t.rows)
                    /\ Len(n.children[1].children) = Len(t.header)
                    /\ \A c \in 1..Len(t.header) :
                         DisplayedText(n.children[1].children[c]) = t.header[c].text
                    /\ \A r \in 1..Len(t.rows) :
                         /\ Len(n.children[1 + r].children) = Len(t.rows[r])
                         /\ \A c \in 1..Len(t.rows[r]) :
                              DisplayedText(n.children[1 + r].children[c])
                                  = t.rows[r][c].text

\* A table with one header cell, a row of two cells and an empty row is shown.
C7_Witness ==
    /\ Shown
    /\ Len(tokens) = 1
    /\ tokens[1].type = "table"
    /\ Len(tokens[1].header) = 1
    /\ Len(tokens[1].rows) = 2
    /\ Len(tokens[1].rows[1]) = 2
    /\ Len(tokens[1].rows[2]) = 0
    /\ Len(output.tree.children[1].children[2].children) = 2

\* The wrapper tokens among the inline tokens of the tree, each with the key it
\* is built with (its position in its sequence).
WrapperSites(ts) ==
    UNION { { [t |-> s[k], i |-> k - 1] : k \in 1..Len(s) } : s \in InlineLists(ts) }

\* C11: in both variants, the build of every strong, em, del or link token
\* succeeds and gives one styled Text wrapper; its children are the built child
\* tokens when the token has a tokens field, and the one literal token.text
\* when it has none.
C11_WrapperChildren ==
    phase = "done" =>
        \A x \in WrapperSites(tokens) :
            x.t.type \in Wrappers =>
                LET key == IF variant = Components THEN <<"in", x.i>> ELSE <<"idx", x.i>>
                    r == RenderToken(variant, customStyles, x.t, key)
                    kids == Inline(variant, customStyles, Field(x.t, "tokens"))
                IN  /\ r.ok
                    /\ Len(r.val) = 1
                    /\ r.val[1].el = "Text"
                    /\ r.val[1].style = <<Sheet(x.t.type), Custom(customStyles, x.t.type)>>
                    /\ r.val[1].children =
                          IF Has(x.t, "tokens") THEN kids.val ELSE <<Lit(x.t.text)>>

\* The older variant met a strong token: renderChildren is not defined, the
\* build threw and nothing caught it.
C11_Witness ==
    /\ phase = "done"
    /\ variant = Legacy
    /\ tokens = <<Para(<<Txt(A), [type |-> "strong", text |-> B]>>)>>
    /\ ~Built.ok
    /\ output = Uncaught

\* What C11 says holds for the component (src/components/MarkdownParser.tsx).
C11_ComponentsWrapperChildren == variant = Components => C11_WrapperChildren

\* The component built an em token without a tokens field around its text.
C11_ComponentsWitness ==
    /\ Shown
    /\ variant = Components
    /\ tokens = <<Para(<<Txt(A), [type |-> "em", text |-> B]>>)>>
    /\ output.tree.children[1].children[2].children = <<Lit(B)>>

\* The text token at p of ts, a text token with tokens, is expanded in place: the
\* nodes built up to and including it are those built before it followed by the
\* nodes of its own child tokens.
ExpandedAt(top, ts, p) ==
    LET upto == BuildSeq(top, Take(ts, p))
        before == BuildSeq(top, Take(ts, p - 1))
        own == RenderInlineTokens(customStyles, Field(ts[p], "tokens"))
    IN  /\ upto.ok
        /\ upto.val = before.val \o own.val

TextWithTokensSites(ts) ==
    {p \in 1..Len(ts) : ts[p].type = "text" /\ Has(ts[p], "tokens")}

\* C12: in the component, every text token that carries child tokens is built by
\* recursing into them, in place among its siblings, and its text field is not
\* emitted, wherever it occurs: at the top level of the document and at any
\* depth inside other tokens.
C12_TextWithTokensExpanded ==
    (phase = "done" /\ variant = Components) =>
        /\ \A p \in TextWithTokensSites(tokens) : ExpandedAt(TRUE, tokens, p)
        /\ \A ts \in InlineLists(tokens) :
             \A p \in TextWithTokensSites(ts) : ExpandedAt(FALSE, ts, p)

\* A text token with child tokens was the document's only top-level token: the
\* component built its text field as a bare string, which the host refused.
C12_Witness ==
    /\ phase = "done"
    /\ variant = Components
    /\ tokens = <<TextWithTokens>>
    /\ Built.ok
    /\ Built.val = <<Lit(B)>>
    /\ output = [shown |-> "tree", tree |-> FallbackNode]

\* What C12 says holds below the top level, where renderInlineTokens is used.
C12_InlineTextWithTokensExpanded ==
    (phase = "done" /\ variant = Components) =>
        \A ts \in InlineLists(tokens) :
            \A p \in TextWithTokensSites(ts) : ExpandedAt(FALSE, ts, p)

\* The properties an entry of a style array sets.
PropsSetBy(e) ==
    CASE e.from = "styles" -> DOMAIN styles[e.slot]
      [] e.from = "customStyles" -> IF Has(e.value, "undef") THEN {} ELSE DOMAIN e.value
      [] OTHER -> {e.prop}

\* The entry of a style array that decides property q: the last one that sets
\* it (0 when none does).
Winner(style, q) ==
    LET setters == {k \in 1..Len(style) : q \in PropsSetBy(style[k])}
    IN  IF setters = {} THEN 0 ELSE CHOOSE k \in setters : \A j \in setters : k >= j

\* In the style array, the caller's fragment for the slot comes after the
\* built-in style of the slot, decides every property it sets, and leaves the
\* built-in style to decide the properties it does not set.
OverrideMerged(style, slot) ==
    \A k \in 1..Len(style) :
        (style[k].from = "customStyles" /\ style[k].slot = slot) =>
            /\ \E j \in 1..(k - 1) : style[j] = Sheet(slot)
            /\ \A q \in PropsSetBy(style[k]) : Winner(style, q) = k
            /\ \A j \in 1..(k - 1) :
                 style[j] = Sheet(slot) =>
                    \A q \in PropsSetBy(style[j]) \ PropsSetBy(style[k]) :
                        Winner(style, q) = j

StyledNodes(tree) == {n \in Subnodes(tree) : Has(n, "style")}

AppliesSlot(n, slot) ==
    \E k \in 1..Len(n.style) :
        n.style[k].from = "customStyles" /\ n.style[k].slot = slot

\* The item containers whose bullet is a checkbox glyph.
IsCheckboxItem(n) ==
    IsItemContainer(n) /\ BulletOf(n) \in {<<"U+2611", " ">>, <<"U+2610", " ">>}

\* C13: for every one of the 28 slots, the nodes built for the slot carry a
\* style array with the built-in style first and the caller's fragment after it,
\* nothing later deciding a property the caller set, and the built-in style
\* deciding the rest; the checkbox glyph of a task item is such a node for the
\* slot taskCheckbox.
C13_StyleOverrides ==
    Has(elements, "el") =>
        /\ \A n \in StyledNodes(elements) :
              \A slot \in Slots : OverrideMerged(n.style, slot)
        /\ \A n \in StyledNodes(elements) :
              IsCheckboxItem(n) =>
                 \E g \in StyledNodes(n) : AppliesSlot(g, "taskCheckbox")

\* A heading of depth 1 was built while the caller's heading style sets a
\* fontSize of 40: the inline fontSize 32 comes after it in the style array.
C13_Witness ==
    /\ Has(elements, "el")
    /\ variant = Components
    /\ customStyles = EveryCustomStyle
    /\ tokens = AllKindsDoc(TRUE)
    /\ elements.children[1].style =
          <<Sheet("heading"), Custom(customStyles, "heading"),
            InlineStyle("fontSize", 32)>>
    /\ Winner(elements.children[1].style, "fontSize") = 3
    /\ \A n \in StyledNodes(elements) : ~AppliesSlot(n, "taskCheckbox")

\* The slots whose style array ends with an inline style object, and the slot
\* no element uses.
InlineStyledSlots == {"heading", "listitemContainer", "nestedList"}

UnusedSlots == {"taskCheckbox"}

\* What C13 says holds for the other 24 slots, and each of them is applied to
\* some node of a document that has every kind of token.
C13_OtherSlotsMerged ==
    Has(elements, "el") =>
        /\ \A n \in StyledNodes(elements) :
              \A slot \in Slots \ (InlineStyledSlots \cup UnusedSlots) :
                  OverrideMerged(n.style, slot)
        /\ (variant = Components /\ tokens = AllKindsDoc(TRUE)) =>
              \A slot \in Slots \ UnusedSlots :
                  \E n \in StyledNodes(elements) : AppliesSlot(n, slot)

\* Every heading token of the tree.
HeadingTokens(ts) ==
    {ts[k] : k \in {j \in 1..Len(ts) : ts[j].type = "heading"}}
    \cup UNION { {s[k] : k \in {j \in 1..Len(s) : s[j].type = "heading"}} :
                 s \in InlineLists(ts) }

\* The font sizes of the depths 1 to 6.
ClaimedSizes == <<32, 28, 24, 20, 16, 14>>

ClaimedFontSize(t) ==
    IF Has(t, "depth") /\ t.depth \in 1..6 THEN ClaimedSizes[t.depth] ELSE 14

IsListToken(t) == t.type = "list"

IsContentToken(t) == t.type # "list"

\* What C15 says of the node built for item i (1-based) of a list built at level
\* lv: one Text with the bullet and then the non-list tokens in source order,
\* followed by one nested-list container per list token, in source order, each
\* holding the items of its list built at level lv + 1; nothing else.
ItemPartitioned(node, item, bullet, lv) ==
    LET itemTokens == IF Has(item, "tokens") THEN item.tokens ELSE <<>>
        content == SelectSeq(itemTokens, IsContentToken)
        lists == SelectSeq(itemTokens, IsListToken)
        inline == RenderInlineTokens(customStyles, [def |-> TRUE, v |-> content])
    IN  /\ Len(node.children) = 1 + Len(lists)
        /\ node.children[1].el = "Text"
        /\ node.children[1].style[1] = Sheet("listitem")
        /\ node.children[1].children = <<Lit(bullet)>> \o inline.val
        /\ \A j \in 1..Len(lists) :
             LET view == node.children[1 + j]
                 sub == RenderListItems(Components, customStyles,
                                        Field(lists[j], "items"),
                                        Truthy(lists[j], "ordered"), lv + 1)
             IN  /\ view.el = "View"
                 /\ view.style[1] = Sheet("nestedList")
                 /\ view.children = sub.val
        /\ ~Has(item, "tokens") =>
             /\ node.children = <<node.children[1]>>
             /\ node.children[1].children = <<Lit(bullet)>>

\* C15: in the component, renderListItems builds for every item of every list,
\* at every level, the node ItemPartitioned describes.
C15_ItemPartition ==
    (phase = "done" /\ variant = Components) =>
        \A L \in AllLists(tokens) : \A lv \in Levels :
            LET r == RenderListItems(Components, customStyles, Field(L, "items"),
                                     Truthy(L, "ordered"), lv)
            IN  r.ok =>
                  /\ Len(r.val) = Len(L.items)
                  /\ \A i \in 1..Len(L.items) :
                       ItemPartitioned(r.val[i], L.items[i],
                                       Bullet(Truthy(L, "ordered"), L.items[i], i - 1),
                                       lv)

\* The list whose item mixes content tokens and nested lists is shown: its item
\* has one Text and two nested-list containers, and its item without tokens
\* has the bullet alone.
C15_Witness ==
    /\ Shown
    /\ variant = Components
    /\ tokens = <<ListMixedItem>>
    /\ Len(output.tree.children[1].children) = 2
    /\ Len(output.tree.children[1].children[1].children) = 3
    /\ output.tree.children[1].children[2].children[1].children = <<Lit(<<"U+2611", " ">>)>>
    /\ Len(output.tree.children[1].children[2].children) = 1

IsKeyed(n) == Has(n, "key") /\ n.key # NoKey

\* The pairs of children of one parent, as <<parent, i, j>>.
ChildPairs(tree) ==
    UNION { { <<n, i, j>> : i, j \in 1..Len(n.children) } :
            n \in {x \in Subnodes(tree) : Has(x, "children")} }

SameKey(c) ==
    LET n == c[1]
        i == c[2]
        j == c[3]
    IN  /\ i < j
        /\ IsKeyed(n.children[i])
        /\ IsKeyed(n.children[j])
        /\ n.children[i].key = n.children[j].key

\* C16: in the component, the keyed nodes that are children of the same parent
\* have pairwise distinct keys, also where renderInlineTokens has expanded a
\* text token with child tokens in place next to keyed siblings.
C16_SiblingKeysDistinct ==
    (Has(elements, "el") /\ variant = Components) =>
        \A c \in ChildPairs(elements) : ~SameKey(c)

\* A paragraph holds a strong token and, after it, a text token whose first
\* child token is a codespan: both nodes are built with the key in-0 and are
\* children of the paragraph's Text.
C16_Witness ==
    /\ Shown
    /\ variant = Components
    /\ tokens = <<Para(<<[type |-> "strong", text |-> A, tokens |-> <<Txt(A)>>],
                         TextWithTextWithTokens, [type |-> "codespan", text |-> B]>>)>>
    /\ output.tree.children[1].children[1].key = <<"in", 0>>
    /\ output.tree.children[1].children[1].style[1] = Sheet("strong")
    /\ output.tree.children[1].children[2].key = <<"in", 0>>
    /\ output.tree.children[1].children[2].style[1] = Sheet("codespan")

\* What C16 says holds for every key that is not one of renderInlineTokens:
\* the top-level nodes, the items and nested-list containers of a list, and the
\* rows and cells of a table.
C16_OtherKeysDistinct ==
    (Has(elements, "el") /\ variant = Components) =>
        \A c \in ChildPairs(elements) :
            SameKey(c) => c[1].children[c[2]].key[1] = "in"

(***************************************************************************)
(* Re-renders of one mounted component instance (SpecMemo)                 *)
(***************************************************************************)

\* A variant of Normalize that leaves a \r alone as it is.
RECURSIVE NormalizeMutCrlfOnly(_)
NormalizeMutCrlfOnly(s) ==
    IF s = <<>> THEN <<>>
    ELSE IF Head(s) = "\r" /\ Len(s) >= 2 /\ s[2] = "\n"
         THEN <<"\n">> \o NormalizeMutCrlfOnly(Drop(s, 2))
         ELSE <<Head(s)>> \o NormalizeMutCrlfOnly(Tail(s))

RECURSIVE Normalize(_)
\* markdownText.replace(/\r\n|\r/g, "\n"): from left to right, a \r with the \n
\* after it, or else a \r alone, becomes one \n.
Normalize(s) ==
    IF s = <<>> THEN <<>>
    ELSE IF Head(s) = "\r" /\ Len(s) >= 2 /\ s[2] = "\n"
         THEN <<"\n">> \o Normalize(Drop(s, 2))
         ELSE IF Head(s) = "\r" THEN <<"\n">> \o Normalize(Tail(s))
         ELSE <<Head(s)>> \o Normalize(Tail(s))

\* The first registered recognizer that matches at the start of s (0: none).
FirstMatching(s) ==
    LET hits == {i \in 1..4 : Tokenizer(i, s) # NoToken}
    IN  IF hits = {} THEN 0 ELSE CHOOSE i \in hits : \A j \in hits : i <= j

RECURSIVE InlineTokens(_, _)
\* The inline tokens of s: the scan above, run to its end with the standard
\* handling taking one character of literal text at a time.
InlineTokens(s, acc) ==
    IF s = <<>> THEN acc
    ELSE LET i == FirstMatching(s)
         IN  IF i = 0 THEN InlineTokens(Tail(s), PushText(acc, <<Head(s)>>))
             ELSE InlineTokens(Drop(s, Len(Tokenizer(i, s).raw)),
                               Append(acc, Tokenizer(i, s)))

\* marked.lexer(s).  The block grammar of marked is outside this repository:
\* the model keeps what the component relies on, a token tree that is a function
\* of the source string alone, here one paragraph over the inline tokens.
Lexer(s) ==
    IF s = <<>> THEN <<>>
    ELSE <<[type |-> "paragraph", raw |-> s, text |-> s,
            tokens |-> InlineTokens(s, <<>>)]>>

\* A variant of Recompute without memoization.
RecomputeMutAlways(cell, dep) == TRUE

\* useMemo(..., [dep]): the value is computed on the first render and whenever
\* the dependency is not the one of the render before.
Recompute(cell, dep) == ~cell.def \/ cell.dep # dep

\* What a pass over the token tree ends up showing.
Show(impl, cs, ts) ==
    LET r == BuildChildren(impl, cs, ts)
        root == ScrollViewOf(cs, r.val)
    IN  IF ~r.ok THEN Uncaught
        ELSE IF ~DisplayRaises(root) THEN [shown |-> "tree", tree |-> root]
        ELSE IF impl = Components THEN [shown |-> "tree", tree |-> FallbackNode]
        ELSE Uncaught

\* Bounds of the re-renders.
MaxTextLen == 2

MaxRenders == 2

TextChars == {"a", "\r", "\n"}

Texts == UNION {[1..n -> TextChars] : n \in 0..MaxTextLen}

InitMemo ==
    /\ MemoIdle
    /\ PropsIdle
    /\ PassIdle
    /\ LexIdle

\* The mounted component is rendered with the props (text, cs).
RenderComponent ==
    /\ renders < MaxRenders
    /\ \E text \in Texts, cs \in {NoCustomStyles, SomeCustomStyles} :
         LET normalized == Normalize(text)
             run == Recompute(memo, normalized)
             parsedTokens == IF run THEN Lexer(normalized) ELSE memo.value
         IN  /\ markdownText' = text
             /\ customStyles' = cs
             /\ normalizedMarkdown' = normalized
             /\ lexerRan' = run
             /\ lexerArg' = IF run THEN normalized ELSE lexerArg
             /\ memo' = IF run THEN [def |-> TRUE, dep |-> normalized,
                                     value |-> parsedTokens]
                        ELSE memo
             /\ tokens' = parsedTokens
             /\ output' = Show(Components, cs, parsedTokens)
    /\ prevText' = markdownText
    /\ prevNormalized' = normalizedMarkdown
    /\ prevStyles' = customStyles
    /\ renders' = renders + 1
    /\ UNCHANGED <<passVars, lexVars>>

NextMemo == RenderComponent

SpecMemo == InitMemo /\ [][NextMemo]_vars

(***************************************************************************)
(* Claims about re-renders (checked under SpecMemo)                        *)
(***************************************************************************)

\* C3: marked.lexer is called on a render exactly when the render is the first
\* or its normalized text differs from that of the render before; a re-render
\* that changes customStyles alone does not call it; and the token tree a render
\* uses is the one of its own normalized text.
C3_LexerRunsIffTextChanged ==
    renders >= 1 =>
        /\ lexerRan <=> (renders = 1 \/ normalizedMarkdown # prevNormalized)
        /\ lexerRan => lexerArg = normalizedMarkdown
        /\ (renders >= 2 /\ markdownText = prevText /\ customStyles # prevStyles)
              => ~lexerRan
        /\ tokens = Lexer(normalizedMarkdown)
        /\ memo = [def |-> TRUE, dep |-> normalizedMarkdown, value |-> tokens]

\* A re-render changed customStyles alone and reused the token tree.
C3_Witness ==
    /\ renders >= 2
    /\ markdownText = prevText
    /\ markdownText # <<>>
    /\ customStyles # prevStyles
    /\ ~lexerRan
    /\ tokens = Lexer(normalizedMarkdown)

\* The lines of s, a line ending at \r\n, at a \r alone or at \n.
RECURSIVE SplitLines(_, _, _)
SplitLines(s, line, done) ==
    IF s = <<>> THEN Append(done, line)
    ELSE IF Len(s) >= 2 /\ s[1] = "\r" /\ s[2] = "\n"
         THEN SplitLines(Drop(s, 2), <<>>, Append(done, line))
    ELSE IF s[1] \in {"\r", "\n"}
         THEN SplitLines(Tail(s), <<>>, Append(done, line))
    ELSE SplitLines(Tail(s), Append(line, s[1]), done)

Lines(s) == SplitLines(s, <<>>, <<>>)

\* C4: two texts that differ only in how their line breaks are written (\r\n,
\* \r or \n) hand the same string to the tokenizer and get the same token tree;
\* that string holds no \r, has the lines of the text, and normalizing it again
\* leaves it as it is.
C4_LineEndingsNormalized ==
    renders >= 1 =>
        /\ \A k \in 1..Len(normalizedMarkdown) : normalizedMarkdown[k] # "\r"
        /\ Normalize(normalizedMarkdown) = normalizedMarkdown
        /\ Lines(normalizedMarkdown) = Lines(markdownText)
        /\ memo.dep = normalizedMarkdown
        /\ (renders >= 2 /\ Lines(markdownText) = Lines(prevText)) =>
              /\ normalizedMarkdown = prevNormalized
              /\ ~lexerRan
              /\ lexerArg = normalizedMarkdown
              /\ tokens = Lexer(prevNormalized)

\* After `a\r`, the text `a\n` was rendered and reused the token tree.
C4_Witness ==
    /\ renders >= 2
    /\ prevText = <<"a", "\r">>
    /\ markdownText = <<"a", "\n">>
    /\ ~lexerRan
    /\ lexerArg = <<"a", "\n">>
    /\ tokens = Lexer(<<"a", "\n">>)

====
